---- MODULE Spec2Model ----
(***************************************************************************)
(* Model of starship_water_calc.py: a straight-line script that binds      *)
(* eight constants, computes eleven derived values one statement at a      *)
(* time, and prints nine lines.                                            *)
(*                                                                         *)
(* Numbers.  The script computes with Python floats and ints, and so does  *)
(* the model.  A float is an IEEE 754 binary64 value and every float       *)
(* operation returns the correctly rounded result, with gradual underflow, *)
(* signed zeros, infinities and the exceptions the interpreter raises      *)
(* (ZeroDivisionError for x / 0.0, OverflowError for math.floor and        *)
(* math.ceil of an infinity).  An int has any size.  Exact values are      *)
(* computed on naturals kept as sequences of base-2^15 digits, which stay  *)
(* inside the integers the model checker has.                              *)
(*                                                                         *)
(* Output.  A printed line is the sequence of the pieces of its f-string:  *)
(* the literal text as written in the source, and each formatted value one *)
(* character per element.                                                  *)
(***************************************************************************)
EXTENDS Integers, Sequences, FiniteSets, TLC

VARIABLES
    m_vehicle, v_orbital, fraction_max_heating, heat_fraction, temp_fraction,
    Lv, payload_per_flight, propellant_cost_per_flight,
    KE_total, KE_max, heat_max, heat_to_tiles_fraction, fraction_absorbed,
    energy_to_steam, m_water_kg, m_water_tonnes, num_flights, total_cost,
    reentries_per_launch,
    pc,        \* the statement about to run ("line34" .. "line75"), or how the run ended
    computed,  \* names of the derived variables bound so far, in the order bound
    stdout,    \* the lines printed so far, in order
    error      \* "none", or the exception that ended the run

consts == <<m_vehicle, v_orbital, fraction_max_heating, heat_fraction,
            temp_fraction, Lv, payload_per_flight, propellant_cost_per_flight>>

derived == <<KE_total, KE_max, heat_max, heat_to_tiles_fraction,
             fraction_absorbed, energy_to_steam, m_water_kg, m_water_tonnes,
             num_flights, total_cost, reentries_per_launch>>

vars == <<consts, derived, pc, computed, stdout, error>>

(***************************************************************************)
(* The int constants as the script writes them, and the bounds of the      *)
(* other values the model gives them.                                      *)
(***************************************************************************)
DefaultMass == 120000
DefaultVelocity == 7800
DefaultLv == 2260000
DefaultPayload == 150
DefaultPropellantCost == 500000
MaxMassK == 1
GridSteps == 2

(***************************************************************************)
(* Natural numbers of any size.  Python's ints are unbounded and a float   *)
(* operation is defined on exact values that do not fit a machine word,    *)
(* so a natural is kept as the sequence of its base-2^15 digits ("limbs"), *)
(* least significant first and without leading zero limbs; zero is <<>>.   *)
(***************************************************************************)
Base == 2 ^ 15

Max(i, j) == IF i >= j THEN i ELSE j
Min(i, j) == IF i <= j THEN i ELSE j
Abs(i) == IF i < 0 THEN 0 - i ELSE i

\* The sequence of the values of f, a function on 1..n.
Limbs(f) == SubSeq(f, 1, Len(f))

Limb(a, i) == IF i >= 1 /\ i <= Len(a) THEN a[i] ELSE 0

\* a without its leading zero limbs
TopLimb(a) ==
    IF \A i \in 1..Len(a) : a[i] = 0 THEN 0
    ELSE CHOOSE i \in 1..Len(a) : a[i] # 0 /\ \A j \in (i + 1)..Len(a) : a[j] = 0

BTrim(a) == SubSeq(a, 1, TopLimb(a))

RECURSIVE BFromInt(_)
BFromInt(i) == IF i = 0 THEN <<>> ELSE <<i % Base>> \o BFromInt(i \div Base)

RECURSIVE BToInt(_)
BToInt(a) == IF a = <<>> THEN 0 ELSE a[1] + Base * BToInt(Tail(a))

\* -1, 0 or 1 as a < b, a = b or a > b.
TopDiff(a, b) ==
    CHOOSE i \in 1..Len(a) : a[i] # b[i] /\ \A j \in (i + 1)..Len(a) : a[j] = b[j]

BCmp(a, b) ==
    IF Len(a) # Len(b) THEN (IF Len(a) < Len(b) THEN 0 - 1 ELSE 1)
    ELSE IF \A i \in 1..Len(a) : a[i] = b[i] THEN 0
    ELSE IF a[TopDiff(a, b)] < b[TopDiff(a, b)] THEN 0 - 1 ELSE 1

\* The carry into limb i of a + b: some lower limb produces a carry and
\* every limb between passes it on.
Carry(a, b, i) ==
    \E j \in 1..(i - 1) :
        /\ Limb(a, j) + Limb(b, j) >= Base
        /\ \A k \in (j + 1)..(i - 1) : Limb(a, k) + Limb(b, k) = Base - 1

BSum(a, b) ==
    BTrim(Limbs([i \in 1..(Max(Len(a), Len(b)) + 1) |->
              (Limb(a, i) + Limb(b, i) + (IF Carry(a, b, i) THEN 1 ELSE 0)) % Base]))

BAdd(a, b) == IF a = <<>> THEN b ELSE IF b = <<>> THEN a ELSE BSum(a, b)

\* The borrow from limb i of a - b.
Borrow(a, b, i) ==
    \E j \in 1..(i - 1) :
        /\ Limb(a, j) < Limb(b, j)
        /\ \A k \in (j + 1)..(i - 1) : Limb(a, k) = Limb(b, k)

\* a - b for a >= b
BSub(a, b) ==
    IF b = <<>> THEN a
    ELSE BTrim(Limbs([i \in 1..Len(a) |->
              (a[i] - Limb(b, i) - (IF Borrow(a, b, i) THEN 1 ELSE 0)) % Base]))

\* The natural whose limbs are the numbers d[i] < Base^2, not yet carried.
BCarried(d) ==
    BSum(Limbs([i \in 1..Len(d) |-> d[i] % Base]),
         Limbs([i \in 1..(Len(d) + 1) |-> IF i = 1 THEN 0 ELSE d[i - 1] \div Base]))

\* a * k for a single limb k
BMulSmall(a, k) ==
    IF a = <<>> \/ k = 0 THEN <<>> ELSE BCarried(Limbs([i \in 1..Len(a) |-> a[i] * k]))

Zeros(n) == Limbs([i \in 1..n |-> 0])

\* a * Base^n
BShiftLimbs(a, n) == IF a = <<>> THEN <<>> ELSE Zeros(n) \o a

\* Column k of the schoolbook product of a and b: the sums of the low and
\* of the high halves of the limb products a[k + 1 - j] * b[j], j >= from.
RECURSIVE ColumnLow(_, _, _, _)
ColumnLow(a, b, k, from) ==
    IF from > Min(k, Len(b)) THEN 0
    ELSE ((Limb(a, k + 1 - from) * b[from]) % Base) + ColumnLow(a, b, k, from + 1)

RECURSIVE ColumnHigh(_, _, _, _)
ColumnHigh(a, b, k, from) ==
    IF from > Min(k, Len(b)) THEN 0
    ELSE ((Limb(a, k + 1 - from) * b[from]) \div Base) + ColumnHigh(a, b, k, from + 1)

BMulColumns(a, b) ==
    BAdd(BCarried(Limbs([k \in 1..(Len(a) + Len(b)) |-> ColumnLow(a, b, k, 1)])),
         BShiftLimbs(BCarried(Limbs([k \in 1..(Len(a) + Len(b)) |-> ColumnHigh(a, b, k, 1)])), 1))

BMul(a, b) ==
    IF a = <<>> \/ b = <<>> THEN <<>>
    ELSE BMulColumns(IF Len(a) >= Len(b) THEN a ELSE b, IF Len(a) >= Len(b) THEN b ELSE a)

\* a * 2^n
BShl(a, n) ==
    IF a = <<>> THEN <<>> ELSE Zeros(n \div 15) \o BMulSmall(a, 2 ^ (n % 15))

\* a \div 2^n, and whether a non-zero bit was shifted out.
BShr(a, n) ==
    [q |-> BTrim(Limbs([i \in 1..(Len(a) - (n \div 15)) |->
                    (a[i + (n \div 15)] \div (2 ^ (n % 15)))
                    + (Limb(a, i + (n \div 15) + 1) % (2 ^ (n % 15))) * (2 ^ (15 - (n % 15)))])),
     sticky |-> \/ \E i \in 1..Min(n \div 15, Len(a)) : a[i] # 0
                \/ Limb(a, (n \div 15) + 1) % (2 ^ (n % 15)) # 0]

\* The number of bits of a single limb.
BitLenSmall(k) == CHOOSE n \in 0..15 : k < 2 ^ n /\ (n = 0 \/ k >= 2 ^ (n - 1))

BitLen(a) == IF a = <<>> THEN 0 ELSE 15 * (Len(a) - 1) + BitLenSmall(a[Len(a)])

BIsOdd(a) == a # <<>> /\ a[1] % 2 = 1

(***************************************************************************)
(* Long division, most significant limb first.  The divisor b is scaled to *)
(* have a top limb of at least Base / 2; the quotient limb of cur by b is  *)
(* then at most two below its estimate from the leading limbs.             *)
(***************************************************************************)
\* Whether d * b <= cur.
BDigitFits(cur, b, d) == BCmp(BMulSmall(b, d), cur) <= 0

BDigitNear(cur, b, qh) ==
    IF BDigitFits(cur, b, qh) THEN qh
    ELSE IF BDigitFits(cur, b, qh - 1) THEN qh - 1
    ELSE qh - 2

BDivDigit(cur, b) ==
    BDigitNear(cur, b,
        Min(Base - 1, (Limb(cur, Len(b) + 1) * Base + Limb(cur, Len(b))) \div b[Len(b)]))

\* One step of the division: h is the quotient and remainder of the limbs
\* above limb ai, cur the remainder with limb ai brought down, d the
\* quotient limb of cur by b.
BDivStepWith(h, cur, b, d) == [q |-> <<d>> \o h.q, r |-> BSub(cur, BMulSmall(b, d))]

BDivStepOn(h, cur, b) == BDivStepWith(h, cur, b, BDivDigit(cur, b))

BDivStep(h, ai, b) ==
    IF h.r = <<>> /\ ai = 0 THEN [q |-> <<0>> \o h.q, r |-> <<>>]
    ELSE BDivStepOn(h, BTrim(<<ai>> \o h.r), b)

\* Quotient and remainder of the limbs i.. of a by b.
RECURSIVE BDivFrom(_, _, _)
BDivFrom(a, b, i) ==
    IF i > Len(a) - Len(b) + 1 THEN [q |-> <<>>, r |-> BTrim(SubSeq(a, Max(i, 1), Len(a)))]
    ELSE BDivStep(BDivFrom(a, b, i + 1), a[i], b)

\* The result of the division scaled by 2^s.
BDivScaledBack(d, s) == [q |-> BTrim(d.q), r |-> BShr(d.r, s).q]

BDivScaled(a, b, s) == BDivScaledBack(BDivFrom(BShl(a, s), BShl(b, s), 1), s)

\* Quotient and remainder of a by b # 0.
BDivMod(a, b) ==
    IF BCmp(a, b) < 0 THEN [q |-> <<>>, r |-> a]
    ELSE BDivScaled(a, b, 15 - BitLenSmall(b[Len(b)]))

(***************************************************************************)
(* Python floats are IEEE 754 binary64 values.  A finite float is          *)
(* (-1)^neg * m * 2^e with m a 53-bit natural, kept in the one canonical   *)
(* form the format has: a normal number has 2^52 <= m < 2^53, a subnormal  *)
(* number or a zero has e = MinExp.  Two finite records are equal exactly  *)
(* when the two floats have the same bits.                                 *)
(***************************************************************************)
MantBits == 53
MinExp == 0 - 1074
MaxExp == 971


Finite(neg, m, e) == [kind |-> "fin", neg |-> neg, m |-> m, e |-> e]
Infinity(neg) == [kind |-> "inf", neg |-> neg, m |-> <<>>, e |-> 0]
NaN == [kind |-> "nan", neg |-> FALSE, m |-> <<>>, e |-> 0]
FZero(neg) == Finite(neg, <<>>, MinExp)
IsZero(x) == x.kind = "fin" /\ x.m = <<>>

\* A Python int: sign and magnitude, of any size.
PyInt(neg, mag) == [kind |-> "int", neg |-> neg /\ mag # <<>>, mag |-> mag]
IntOf(i) == PyInt(i < 0, BFromInt(Abs(i)))

\* The outcome of an operation that raises instead of returning.  An
\* operation with an operand that raised raises the same exception.
Raised(exc) == [kind |-> "raise", exc |-> exc]
IsRaised(x) == x.kind = "raise"

(***************************************************************************)
(* Round (-1)^neg * (m + s) * 2^e, where 0 < s < 1 when sticky holds and   *)
(* s = 0 otherwise, to the nearest binary64 value, ties to the even        *)
(* mantissa.  Results below the normal range are rounded on the subnormal  *)
(* grid (gradual underflow, down to zero); results above the largest       *)
(* finite value become an infinity.  With sticky set, m has more than      *)
(* MantBits + 1 bits.                                                      *)
(***************************************************************************)
\* hi is the value cut at the last kept bit, lo the value cut one bit below.
RoundedUp(hi, lo, sticky) ==
    IF BIsOdd(lo.q) /\ (lo.sticky \/ sticky \/ BIsOdd(hi.q)) THEN BAdd(hi.q, <<1>>) ELSE hi.q

\* The float of mantissa m, of at most MantBits + 1 bits, and exponent e.
Packed(neg, m, e) ==
    IF m = <<>> THEN FZero(neg)
    ELSE IF BitLen(m) > MantBits
    THEN IF e + 1 > MaxExp THEN Infinity(neg) ELSE Finite(neg, BShr(m, 1).q, e + 1)
    ELSE IF e > MaxExp THEN Infinity(neg)
    ELSE Finite(neg, m, e)

\* Rounded at the exponent et of the result.
RoundAt(neg, m, e, sticky, et) ==
    Packed(neg,
           IF et <= e THEN BShl(m, e - et)
           ELSE RoundedUp(BShr(m, et - e), BShr(m, et - e - 1), sticky),
           et)

Round(neg, m, e, sticky) ==
    IF m = <<>> THEN FZero(neg)
    ELSE RoundAt(neg, m, e, sticky, Max(e + BitLen(m) - MantBits, MinExp))

\* Infinity as the result of an operation that raises on overflow.
Overflowing(r) == IF r.kind = "inf" THEN Raised("OverflowError") ELSE r

\* int -> float as the interpreter converts an int operand of a float
\* operation: correctly rounded, OverflowError when out of range.
FromPyInt(n) ==
    IF IsRaised(n) THEN n ELSE Overflowing(Round(n.neg, n.mag, 0, FALSE))

FromInt(i) == FromPyInt(IntOf(i))

FNeg(x) == IF IsRaised(x) \/ x.kind = "nan" THEN x ELSE [x EXCEPT !.neg = ~x.neg]

\* float * float
FMul(x, y) ==
    IF IsRaised(x) THEN x ELSE IF IsRaised(y) THEN y
    ELSE IF x.kind = "nan" \/ y.kind = "nan" THEN NaN
    ELSE IF x.kind = "inf" \/ y.kind = "inf"
    THEN IF IsZero(x) \/ IsZero(y) THEN NaN ELSE Infinity(x.neg # y.neg)
    ELSE Round(x.neg # y.neg, BMul(x.m, y.m), x.e + y.e, FALSE)

\* The sum of (-1)^xn * xm * 2^e and (-1)^yn * ym * 2^e.
FAddAligned(xn, xm, yn, ym, e) ==
    IF xn = yn THEN Round(xn, BAdd(xm, ym), e, FALSE)
    ELSE IF BCmp(xm, ym) = 0 THEN FZero(FALSE)
    ELSE Round(IF BCmp(xm, ym) > 0 THEN xn ELSE yn,
               BSub(IF BCmp(xm, ym) > 0 THEN xm ELSE ym,
                    IF BCmp(xm, ym) > 0 THEN ym ELSE xm),
               e, FALSE)

\* An operand more than GuardGap binary places below the other only decides
\* the direction of rounding: any non-zero value that far below does.
GuardGap == 64

FarBelow(lo, hi) ==
    IF hi.e - lo.e > GuardGap THEN Finite(lo.neg, <<1>>, hi.e - GuardGap) ELSE lo

\* The sum of two non-zero finite floats, hi the one of larger exponent.
FAddOrdered(hi, lo) ==
    FAddAligned(hi.neg, BShl(hi.m, hi.e - lo.e), lo.neg, lo.m, lo.e)

\* float + float
FAdd(x, y) ==
    IF IsRaised(x) THEN x ELSE IF IsRaised(y) THEN y
    ELSE IF x.kind = "nan" \/ y.kind = "nan" THEN NaN
    ELSE IF x.kind = "inf"
    THEN IF y.kind = "inf" /\ x.neg # y.neg THEN NaN ELSE x
    ELSE IF y.kind = "inf" THEN y
    ELSE IF IsZero(x) /\ IsZero(y) THEN FZero(x.neg /\ y.neg)
    ELSE IF IsZero(x) THEN y
    ELSE IF IsZero(y) THEN x
    ELSE FAddOrdered(IF x.e >= y.e THEN x ELSE y,
                     FarBelow(IF x.e >= y.e THEN y ELSE x, IF x.e >= y.e THEN x ELSE y))

\* float - float
FSub(x, y) == FAdd(x, FNeg(y))

\* The float nearest to (-1)^neg * (n / d) * 2^e for naturals n and d # 0:
\* the quotient is taken to QuotBits bits, the remainder and the bits
\* shifted out of n decide the rounding.
QuotBits == 56

QuotientRounded(neg, dm, sticky, e) == Round(neg, dm.q, e, sticky \/ dm.r # <<>>)

QuotientOver(neg, sh, d, e) == QuotientRounded(neg, BDivMod(sh.q, d), sh.sticky, e)

\* n is shifted by s bits, left or right, to make the quotient QuotBits long
QuotientAt(neg, n, d, e, s) ==
    QuotientOver(neg,
                 IF s >= 0 THEN [q |-> BShl(n, s), sticky |-> FALSE] ELSE BShr(n, 0 - s),
                 d, e - s)

Quotient(neg, n, d, e) == QuotientAt(neg, n, d, e, QuotBits + BitLen(d) - BitLen(n))

\* float / float: a zero divisor raises, everything else is the correctly
\* rounded quotient (an infinity when it is out of range).
FDiv(x, y) ==
    IF IsRaised(x) THEN x ELSE IF IsRaised(y) THEN y
    ELSE IF IsZero(y) THEN Raised("ZeroDivisionError")
    ELSE IF x.kind = "nan" \/ y.kind = "nan" THEN NaN
    ELSE IF x.kind = "inf"
    THEN IF y.kind = "inf" THEN NaN ELSE Infinity(x.neg # y.neg)
    ELSE IF y.kind = "inf" THEN FZero(x.neg # y.neg)
    ELSE IF IsZero(x) THEN FZero(x.neg # y.neg)
    ELSE Quotient(x.neg # y.neg, x.m, y.m, x.e - y.e)

(***************************************************************************)
(* float ** 4.  Python hands float ** float to the C library's pow(),      *)
(* which is accurate to within a unit in the last place and is not         *)
(* correctly rounded: which float it returns for an inexact power depends  *)
(* on the library the interpreter is built with.  The outcomes are the     *)
(* floats enclosing the exact fourth power, the one below and the one      *)
(* above; an exact power has one outcome.  A result out of range raises    *)
(* OverflowError.                                                          *)
(***************************************************************************)
\* The floats enclosing a positive number: cut is the number cut off at the
\* exponent et of the float below it.
EnclosingAt(cut, et) ==
    {Packed(FALSE, c, et) :
        c \in {cut.q} \cup (IF cut.sticky THEN {BAdd(cut.q, <<1>>)} ELSE {})}

EnclosingFrom(m, e, et) ==
    EnclosingAt(IF et <= e THEN [q |-> BShl(m, e - et), sticky |-> FALSE]
                ELSE BShr(m, et - e),
                et)

\* The floats enclosing m * 2^e, m # 0
Enclosing(m, e) == EnclosingFrom(m, e, Max(e + BitLen(m) - MantBits, MinExp))

FourthPower(sq, e) == {Overflowing(r) : r \in Enclosing(BMul(sq, sq), 4 * e)}

\* The outcomes of x ** 4
FPow4(x) ==
    IF IsRaised(x) THEN {x}
    ELSE IF x.kind = "nan" THEN {NaN}
    ELSE IF x.kind = "inf" THEN {Infinity(FALSE)}
    ELSE IF IsZero(x) THEN {FZero(FALSE)}
    ELSE FourthPower(BMul(x.m, x.m), x.e)

\* int ** 2 and int * int
IMul(a, b) ==
    IF IsRaised(a) THEN a ELSE IF IsRaised(b) THEN b
    ELSE PyInt(a.neg # b.neg, BMul(a.mag, b.mag))
IPow2(a) == IMul(a, a)

\* math.floor and math.ceil of a float: an int of any size; an infinity
\* raises OverflowError and a NaN raises ValueError.
IntegerPart(x) ==
    IF x.e >= 0 THEN [q |-> BShl(x.m, x.e), sticky |-> FALSE] ELSE BShr(x.m, 0 - x.e)

\* The int at the integer part p of a float, or one further from zero.
IntAt(neg, p, further) ==
    IF further /\ p.sticky THEN PyInt(neg, BAdd(p.q, <<1>>)) ELSE PyInt(neg, p.q)

Floor(x) ==
    IF IsRaised(x) THEN x
    ELSE IF x.kind = "nan" THEN Raised("ValueError")
    ELSE IF x.kind = "inf" THEN Raised("OverflowError")
    ELSE IntAt(x.neg, IntegerPart(x), x.neg)

Ceil(x) ==
    IF IsRaised(x) THEN x
    ELSE IF x.kind = "nan" THEN Raised("ValueError")
    ELSE IF x.kind = "inf" THEN Raised("OverflowError")
    ELSE IntAt(x.neg, IntegerPart(x), ~x.neg)

(***************************************************************************)
(* Text.  A piece of output is a sequence of strings; the text it stands   *)
(* for is their concatenation.  Numbers are formatted one character per    *)
(* element.                                                                *)
(***************************************************************************)
DigitChar(d) == <<"0", "1", "2", "3", "4", "5", "6", "7", "8", "9">>[d + 1]

\* The decimal digits of k, most significant first, at least width of them.
RECURSIVE SmallDigits(_, _)
SmallDigits(k, width) ==
    IF k < 10 /\ width <= 1 THEN <<DigitChar(k)>>
    ELSE SmallDigits(k \div 10, width - 1) \o <<DigitChar(k % 10)>>

RECURSIVE BPow10(_)
BPow10(k) ==
    IF k <= 4 THEN <<10 ^ k>>
    ELSE BMul(BPow10(k \div 2), BPow10(k - (k \div 2)))

Biggest(S) == CHOOSE i \in S : \A j \in S : j <= i
Least(S) == CHOOSE i \in S : \A j \in S : i <= j

\* The w decimal digits of a natural below 10^w, split in halves.
RECURSIVE BDigitsWide(_, _)
BDigitsHalves(dm, w) ==
    BDigitsWide(dm.q, w \div 2) \o BDigitsWide(dm.r, w - (w \div 2))

BDigitsWide(a, w) ==
    IF w <= 4 THEN SmallDigits(BToInt(a), w)
    ELSE BDigitsHalves(BDivMod(a, BPow10(w - (w \div 2))), w)

\* d without its leading zeros, the last digit kept
Stripped(d) ==
    SubSeq(d, Least({i \in 1..Len(d) : d[i] # "0" \/ i = Len(d)}), Len(d))

\* The decimal digits of a natural: it has at most BitLen * log10(2) + 1.
BDigits(a) == Stripped(BDigitsWide(a, (BitLen(a) * 30103) \div 100000 + 1))

\* m * 2^e rounded to an integer, ties to even.
RoundToInt(m, e) ==
    IF m = <<>> THEN <<>>
    ELSE IF e >= 0 THEN BShl(m, e)
    ELSE RoundedUp(BShr(m, 0 - e), BShr(m, 0 - e - 1), FALSE)

\* n / d rounded to an integer, ties to even: dm is the quotient and
\* remainder, half tells twice the remainder from d.
DivRoundedBy(dm, half) ==
    IF half > 0 \/ (half = 0 /\ BIsOdd(dm.q)) THEN BAdd(dm.q, <<1>>) ELSE dm.q

DivRounded(dm, d) == DivRoundedBy(dm, BCmp(BMulSmall(dm.r, 2), d))

DivRound(n, d) == DivRounded(BDivMod(n, d), d)

\* m * 2^e / 10^y is the quotient of the naturals DecNum and DecDen.
DecNum(m, e, y) == BShl(BMul(m, BPow10(Max(0 - y, 0))), Max(e, 0))
DecDen(e, y) == BShl(BPow10(Max(y, 0)), Max(0 - e, 0))

\* m * 2^e / 10^y rounded to an integer, ties to even.
Scaled(m, e, y) == DivRound(DecNum(m, e, y), DecDen(e, y))

\* -1, 0 or 1 as m * 2^e is below, equal to or above 10^y.
DecCmp(m, e, y) == BCmp(DecNum(m, e, y), DecDen(e, y))

\* An estimate of floor(log10(m * 2^e)), at most one off.
Log10Estimate(m, e) == ((BitLen(m) + e - 1) * 30103) \div 100000

\* floor(log10(m * 2^e)) for m # 0
DecimalExponentNear(m, e, est) ==
    Biggest({y \in (est - 1)..(est + 1) : DecCmp(m, e, y) >= 0})

DecimalExponent(m, e) == DecimalExponentNear(m, e, Log10Estimate(m, e))

\* The decimal exponent x and the k-digit integer n that m * 2^e rounds to:
\* rounding up to 10^k moves to the next exponent.
SigCarried(x, n, k) ==
    IF BCmp(n, BPow10(k)) >= 0 THEN [x |-> x + 1, n |-> BPow10(k - 1)]
    ELSE [x |-> x, n |-> n]

SigDigitsAt(m, e, k, x) == SigCarried(x, Scaled(m, e, x - (k - 1)), k)

SigDigits(m, e, k) == SigDigitsAt(m, e, k, DecimalExponent(m, e))

Sign(x) == IF x.neg THEN <<"-">> ELSE <<>>
ExpText(x) == <<"e", IF x < 0 THEN "-" ELSE "+">> \o SmallDigits(Abs(x), 2)

\* format(x, ".2e")
SciText(sgn, d, x) == sgn \o <<d[1], ".", d[2], d[3]>> \o ExpText(x)

SciOf(sgn, s) == SciText(sgn, BDigits(s.n), s.x)

FmtSci2(x) ==
    IF x.kind = "nan" THEN <<"n", "a", "n">>
    ELSE IF x.kind = "inf" THEN Sign(x) \o <<"i", "n", "f">>
    ELSE IF IsZero(x) THEN Sign(x) \o <<"0", ".", "0", "0", "e", "+", "0", "0">>
    ELSE SciOf(Sign(x), SigDigits(x.m, x.e, 3))

\* format(x, ".2f") and format(x, ".0f")
Padded(d) == IF Len(d) < 3 THEN SubSeq(<<"0", "0", "0">>, 1, 3 - Len(d)) \o d ELSE d

Fixed2Text(sgn, w) ==
    sgn \o SubSeq(w, 1, Len(w) - 2) \o <<".">> \o SubSeq(w, Len(w) - 1, Len(w))

FmtFixed2(x) ==
    IF x.kind = "nan" THEN <<"n", "a", "n">>
    ELSE IF x.kind = "inf" THEN Sign(x) \o <<"i", "n", "f">>
    ELSE Fixed2Text(Sign(x), Padded(BDigits(RoundToInt(BMulSmall(x.m, 100), x.e))))

FmtFixed0(x) ==
    IF x.kind = "nan" THEN <<"n", "a", "n">>
    ELSE IF x.kind = "inf" THEN Sign(x) \o <<"i", "n", "f">>
    ELSE Sign(x) \o BDigits(RoundToInt(x.m, x.e))

\* format(n, "") and format(n, ",") of an int
FmtInt(n) == Sign(n) \o BDigits(n.mag)

RECURSIVE Grouped(_)
Grouped(d) ==
    IF Len(d) <= 3 THEN d
    ELSE Grouped(SubSeq(d, 1, Len(d) - 3)) \o <<",">> \o SubSeq(d, Len(d) - 2, Len(d))

FmtThousands(n) == Sign(n) \o Grouped(BDigits(n.mag))

\* The float nearest to n * 10^y.
NearestDecimal(n, y) ==
    Quotient(FALSE, BMul(n, BPow10(Max(y, 0))), BPow10(Max(0 - y, 0)), 0)

(***************************************************************************)
(* repr(x) has the fewest significant digits that read back as x.  At k    *)
(* digits the candidates are the k-digit decimal nearest to x and its two  *)
(* neighbours, the nearest first; 17 digits always suffice.                *)
(***************************************************************************)
MaxReprDigits == 17

ReadsBack(m, e, n, x, k) ==
    /\ BCmp(n, BPow10(k - 1)) >= 0
    /\ BCmp(n, BPow10(k)) < 0
    /\ NearestDecimal(n, x - (k - 1)) = Finite(FALSE, m, e)

Candidate(s, o) ==
    IF o = 0 THEN s.n ELSE IF o = 1 THEN BAdd(s.n, <<1>>) ELSE BSub(s.n, <<1>>)

ReadingBack(m, e, s, k) == {o \in 0..2 : ReadsBack(m, e, Candidate(s, o), s.x, k)}

ReprFound(k, s, ok) ==
    [ok |-> ok # {} \/ k >= MaxReprDigits, k |-> k, x |-> s.x,
     n |-> Candidate(s, IF ok = {} THEN 0 ELSE Least(ok))]

ReprWith(m, e, k, s) == ReprFound(k, s, ReadingBack(m, e, s, k))

ReprCandidate(m, e, k) == ReprWith(m, e, k, SigDigits(m, e, k))

RECURSIVE ShortestDigits(_, _, _)
ShortestFrom(m, e, c) == IF c.ok THEN c ELSE ShortestDigits(m, e, c.k + 1)

ShortestDigits(m, e, k) == ShortestFrom(m, e, ReprCandidate(m, e, k))

Repeat(c, n) == [i \in 1..n |-> c]

\* repr(x), which is also str(x) and format(x, ""): c is the shortest
\* candidate and d its digits
ReprLayout(sgn, c, d) ==
    sgn \o
    (IF c.x < 0 - 4 \/ c.x >= 16
     THEN <<d[1]>> \o (IF c.k > 1 THEN <<".">> \o SubSeq(d, 2, c.k) ELSE <<>>) \o ExpText(c.x)
     ELSE IF c.x < 0
     THEN <<"0", ".">> \o Repeat("0", 0 - c.x - 1) \o d
     ELSE IF c.k <= c.x + 1
     THEN d \o Repeat("0", c.x + 1 - c.k) \o <<".", "0">>
     ELSE SubSeq(d, 1, c.x + 1) \o <<".">> \o SubSeq(d, c.x + 2, c.k))

ReprText(sgn, c) == ReprLayout(sgn, c, BDigits(c.n))

FloatRepr(x) ==
    IF x.kind = "nan" THEN <<"n", "a", "n">>
    ELSE IF x.kind = "inf" THEN Sign(x) \o <<"i", "n", "f">>
    ELSE IF IsZero(x) THEN Sign(x) \o <<"0", ".", "0">>
    ELSE ReprText(Sign(x), ShortestDigits(x.m, x.e, 1))

(***************************************************************************)
(* Float literals.  The literal with the decimal value n / d is the float  *)
(* nearest to it.                                                          *)
(***************************************************************************)
Dbl(n, d) == Quotient(n < 0, BFromInt(Abs(n)), BFromInt(d), 0)

\* 5e-324, the smallest positive float
MinSubnormal == Finite(FALSE, <<1>>, MinExp)

\* the value of a name that no statement has bound yet
\* the next float above a positive float x whose mantissa is not all ones
Above(x) == Finite(x.neg, BAdd(x.m, <<1>>), x.e)
Unbound == [kind |-> "unbound"]

(***************************************************************************)
(* The right-hand sides of the eleven assignments, lines 34 to 64.  The    *)
(* int constants are TLA+ integers; floats, computed ints and raised       *)
(* exceptions are records.                                                 *)
(***************************************************************************)
KE_total_expr(mv, v) == FMul(FMul(Dbl(1, 2), FromInt(mv)), FromPyInt(IPow2(IntOf(v))))
KE_max_expr_complemented(fmh, ket) == FMul(FSub(FromInt(1), fmh), ket)
KE_max_expr(fmh, ket) == FMul(fmh, ket)
heat_max_expr(hf, kem) == FMul(hf, kem)
\* the outcomes of temp_fraction ** 4
heat_to_tiles_fraction_expr(tf) == FPow4(tf)
fraction_absorbed_expr_not_complemented(httf) == httf
fraction_absorbed_expr(httf) == FSub(FromInt(1), httf)
energy_to_steam_expr(fa, hm) == FMul(fa, hm)
m_water_kg_expr(ets, lv) == FDiv(ets, FromInt(lv))
m_water_tonnes_expr(kg) == FDiv(kg, FromInt(1000))
num_flights_expr(mwt, ppf) == Ceil(FDiv(mwt, FromInt(ppf)))
total_cost_expr(nf, cost) == IMul(nf, IntOf(cost))
reentries_per_launch_expr(ppf, mwt) == Floor(FDiv(FromInt(ppf), mwt))

(***************************************************************************)
(* The nine printed lines, lines 67 to 75.                                 *)
(***************************************************************************)
print67(ket) == <<"Total kinetic energy: ">> \o FmtSci2(ket) \o <<" J">>
print68(fmh, kem) ==
    <<"KE during max heating (">> \o FloatRepr(FMul(fmh, FromInt(100)))
        \o <<"%): ">> \o FmtSci2(kem) \o <<" J">>
print69(hf, hm) ==
    <<"Heat during max heating (heat_fraction ">> \o FloatRepr(hf)
        \o <<"): ">> \o FmtSci2(hm) \o <<" J">>
print70(fa) == <<"Fraction absorbed by water: ">> \o FmtFixed2(fa)
print71(ets) == <<"Energy to steam: ">> \o FmtSci2(ets) \o <<" J">>
print72(mwt) == <<"Required water mass: ">> \o FmtFixed0(mwt) \o <<" metric tonnes">>
print73(nf) == <<"Number of flights needed: ">> \o FmtInt(nf)
print74(tc) == <<"Total cost to deliver water to orbit: $">> \o FmtThousands(tc) \o <<" USD">>
print75(rpl) == <<"Reentries supplied per launch (including freighter): ">> \o FmtInt(rpl)

(***************************************************************************)
(* The statements of the script in program order, and what each reads.     *)
(***************************************************************************)
\* lines 72 and 73 exchanged
ProgramOrder_prints_exchanged ==
    <<"line34", "line37", "line40", "line43", "line46",
      "line49", "line52", "line55", "line58", "line61",
      "line64", "line67", "line68", "line69", "line70",
      "line71", "line73", "line72", "line74", "line75">>

\* line 64 moved down below the first print
ProgramOrder_reentries_after_first_print ==
    <<"line34", "line37", "line40", "line43", "line46",
      "line49", "line52", "line55", "line58", "line61",
      "line67", "line64", "line68", "line69", "line70",
      "line71", "line72", "line73", "line74", "line75">>

ProgramOrder ==
    <<"line34", "line37", "line40", "line43", "line46",
      "line49", "line52", "line55", "line58", "line61",
      "line64", "line67", "line68", "line69", "line70",
      "line71", "line72", "line73", "line74", "line75">>

\* the statement that runs after `line`, or "exit0" after the last one
Following(i) == IF i = Len(ProgramOrder) THEN "exit0" ELSE ProgramOrder[i + 1]

Succ(line) == Following(CHOOSE k \in DOMAIN ProgramOrder : ProgramOrder[k] = line)

AllDerived ==
    {"KE_total", "KE_max", "heat_max",
     "heat_to_tiles_fraction", "fraction_absorbed", "energy_to_steam",
     "m_water_kg", "m_water_tonnes", "num_flights",
     "total_cost", "reentries_per_launch"}

\* the derived variables a statement's expression reads
Reads(line) ==
    CASE line = "line34" -> {}
      [] line = "line37" -> {"KE_total"}
      [] line = "line40" -> {"KE_max"}
      [] line = "line43" -> {}
      [] line = "line46" -> {"heat_to_tiles_fraction"}
      [] line = "line49" -> {"fraction_absorbed", "heat_max"}
      [] line = "line52" -> {"energy_to_steam"}
      [] line = "line55" -> {"m_water_kg"}
      [] line = "line58" -> {"m_water_tonnes"}
      [] line = "line61" -> {"num_flights"}
      [] line = "line64" -> {"m_water_tonnes"}
      [] line = "line67" -> {"KE_total"}
      [] line = "line68" -> {"KE_max"}
      [] line = "line69" -> {"heat_max"}
      [] line = "line70" -> {"fraction_absorbed"}
      [] line = "line71" -> {"energy_to_steam"}
      [] line = "line72" -> {"m_water_tonnes"}
      [] line = "line73" -> {"num_flights"}
      [] line = "line74" -> {"total_cost"}
      [] line = "line75" -> {"reentries_per_launch"}

\* the derived variables bound so far
Bound == {computed[i] : i \in DOMAIN computed}

\* the value of the expression of `line`: reading a name that is not bound
\* raises NameError before anything else is evaluated
Eval(line, value) ==
    IF Reads(line) \subseteq Bound THEN value ELSE Raised("NameError")

\* an unhandled exception: the traceback goes to stderr and the run ends
Raise(exc) ==
    /\ pc' = "exit1"
    /\ error' = exc
    /\ UNCHANGED computed

\* the assignment binds `name` and control moves to the next statement
Bind(line, name) ==
    /\ pc' = Succ(line)
    /\ computed' = Append(computed, name)
    /\ UNCHANGED error

(***************************************************************************)
(* The values the constants take.  Every set holds the value the script    *)
(* assigns; the others exercise the roundings and the exceptions.          *)
(***************************************************************************)
FractionGrid == {Dbl(k, GridSteps) : k \in 0..GridSteps}
Masses == {DefaultMass} \cup {2000 * k : k \in 1..MaxMassK}
Velocities == {DefaultVelocity, 1}
HeatingFractions ==
    {Dbl(3, 10), Dbl(7, 10), Above(Dbl(7, 10)), MinSubnormal} \cup FractionGrid
HeatFractions == {Dbl(1, 100), Dbl(1, 10)}
TempFractions == {Dbl(8, 10)} \cup FractionGrid
LatentHeats == {DefaultLv, 1}
Payloads == {DefaultPayload, 1}

Init ==
    /\ m_vehicle \in Masses
    /\ v_orbital \in Velocities
    /\ fraction_max_heating \in HeatingFractions
    /\ heat_fraction \in HeatFractions
    /\ temp_fraction \in TempFractions
    /\ Lv \in LatentHeats
    /\ payload_per_flight \in Payloads
    /\ propellant_cost_per_flight = DefaultPropellantCost
    /\ KE_total = Unbound
    /\ KE_max = Unbound
    /\ heat_max = Unbound
    /\ heat_to_tiles_fraction = Unbound
    /\ fraction_absorbed = Unbound
    /\ energy_to_steam = Unbound
    /\ m_water_kg = Unbound
    /\ m_water_tonnes = Unbound
    /\ num_flights = Unbound
    /\ total_cost = Unbound
    /\ reentries_per_launch = Unbound
    /\ pc = ProgramOrder[1]
    /\ computed = <<>>
    /\ stdout = <<>>
    /\ error = "none"

\* line 34: KE_total = 0.5 * m_vehicle * v_orbital ** 2
Line34 ==
    /\ pc = "line34"
    /\ \E value \in {Eval("line34", KE_total_expr(m_vehicle, v_orbital))} :
          IF IsRaised(value)
          THEN Raise(value.exc) /\ UNCHANGED KE_total
          ELSE KE_total' = value /\ Bind("line34", "KE_total")
    /\ UNCHANGED <<consts, KE_max, heat_max, heat_to_tiles_fraction, fraction_absorbed,
                   energy_to_steam, m_water_kg, m_water_tonnes, num_flights, total_cost,
                   reentries_per_launch, stdout>>

\* line 37: KE_max = fraction_max_heating * KE_total
Line37 ==
    /\ pc = "line37"
    /\ \E value \in {Eval("line37", KE_max_expr(fraction_max_heating, KE_total))} :
          IF IsRaised(value)
          THEN Raise(value.exc) /\ UNCHANGED KE_max
          ELSE KE_max' = value /\ Bind("line37", "KE_max")
    /\ UNCHANGED <<consts, KE_total, heat_max, heat_to_tiles_fraction, fraction_absorbed,
                   energy_to_steam, m_water_kg, m_water_tonnes, num_flights, total_cost,
                   reentries_per_launch, stdout>>

\* line 40: heat_max = heat_fraction * KE_max
Line40 ==
    /\ pc = "line40"
    /\ \E value \in {Eval("line40", heat_max_expr(heat_fraction, KE_max))} :
          IF IsRaised(value)
          THEN Raise(value.exc) /\ UNCHANGED heat_max
          ELSE heat_max' = value /\ Bind("line40", "heat_max")
    /\ UNCHANGED <<consts, KE_total, KE_max, heat_to_tiles_fraction, fraction_absorbed,
                   energy_to_steam, m_water_kg, m_water_tonnes, num_flights, total_cost,
                   reentries_per_launch, stdout>>

\* line 43: heat_to_tiles_fraction = temp_fraction ** 4
Line43 ==
    /\ pc = "line43"
    /\ \E value \in {Eval("line43", power) :
                       power \in heat_to_tiles_fraction_expr(temp_fraction)} :
          IF IsRaised(value)
          THEN Raise(value.exc) /\ UNCHANGED heat_to_tiles_fraction
          ELSE heat_to_tiles_fraction' = value /\ Bind("line43", "heat_to_tiles_fraction")
    /\ UNCHANGED <<consts, KE_total, KE_max, heat_max, fraction_absorbed, energy_to_steam,
                   m_water_kg, m_water_tonnes, num_flights, total_cost,
                   reentries_per_launch, stdout>>

\* line 46: fraction_absorbed = 1 - heat_to_tiles_fraction
Line46 ==
    /\ pc = "line46"
    /\ \E value \in {Eval("line46", fraction_absorbed_expr(heat_to_tiles_fraction))} :
          IF IsRaised(value)
          THEN Raise(value.exc) /\ UNCHANGED fraction_absorbed
          ELSE fraction_absorbed' = value /\ Bind("line46", "fraction_absorbed")
    /\ UNCHANGED <<consts, KE_total, KE_max, heat_max, heat_to_tiles_fraction, energy_to_steam,
                   m_water_kg, m_water_tonnes, num_flights, total_cost,
                   reentries_per_launch, stdout>>

\* line 49: energy_to_steam = fraction_absorbed * heat_max
Line49 ==
    /\ pc = "line49"
    /\ \E value \in {Eval("line49", energy_to_steam_expr(fraction_absorbed, heat_max))} :
          IF IsRaised(value)
          THEN Raise(value.exc) /\ UNCHANGED energy_to_steam
          ELSE energy_to_steam' = value /\ Bind("line49", "energy_to_steam")
    /\ UNCHANGED <<consts, KE_total, KE_max, heat_max, heat_to_tiles_fraction,
                   fraction_absorbed, m_water_kg, m_water_tonnes, num_flights,
                   total_cost, reentries_per_launch, stdout>>

\* line 52: m_water_kg = energy_to_steam / Lv
Line52 ==
    /\ pc = "line52"
    /\ \E value \in {Eval("line52", m_water_kg_expr(energy_to_steam, Lv))} :
          IF IsRaised(value)
          THEN Raise(value.exc) /\ UNCHANGED m_water_kg
          ELSE m_water_kg' = value /\ Bind("line52", "m_water_kg")
    /\ UNCHANGED <<consts, KE_total, KE_max, heat_max, heat_to_tiles_fraction,
                   fraction_absorbed, energy_to_steam, m_water_tonnes, num_flights,
                   total_cost, reentries_per_launch, stdout>>

\* line 55: m_water_tonnes = m_water_kg / 1000
Line55 ==
    /\ pc = "line55"
    /\ \E value \in {Eval("line55", m_water_tonnes_expr(m_water_kg))} :
          IF IsRaised(value)
          THEN Raise(value.exc) /\ UNCHANGED m_water_tonnes
          ELSE m_water_tonnes' = value /\ Bind("line55", "m_water_tonnes")
    /\ UNCHANGED <<consts, KE_total, KE_max, heat_max, heat_to_tiles_fraction,
                   fraction_absorbed, energy_to_steam, m_water_kg, num_flights,
                   total_cost, reentries_per_launch, stdout>>

\* line 58: num_flights = math.ceil(m_water_tonnes / payload_per_flight)
Line58 ==
    /\ pc = "line58"
    /\ \E value \in {Eval("line58", num_flights_expr(m_water_tonnes, payload_per_flight))} :
          IF IsRaised(value)
          THEN Raise(value.exc) /\ UNCHANGED num_flights
          ELSE num_flights' = value /\ Bind("line58", "num_flights")
    /\ UNCHANGED <<consts, KE_total, KE_max, heat_max, heat_to_tiles_fraction,
                   fraction_absorbed, energy_to_steam, m_water_kg, m_water_tonnes,
                   total_cost, reentries_per_launch, stdout>>

\* line 61: total_cost = num_flights * propellant_cost_per_flight
Line61 ==
    /\ pc = "line61"
    /\ \E value \in {Eval("line61", total_cost_expr(num_flights, propellant_cost_per_flight))} :
          IF IsRaised(value)
          THEN Raise(value.exc) /\ UNCHANGED total_cost
          ELSE total_cost' = value /\ Bind("line61", "total_cost")
    /\ UNCHANGED <<consts, KE_total, KE_max, heat_max, heat_to_tiles_fraction,
                   fraction_absorbed, energy_to_steam, m_water_kg, m_water_tonnes,
                   num_flights, reentries_per_launch, stdout>>

\* line 64: reentries_per_launch = math.floor(payload_per_flight / m_water_tonnes)
Line64 ==
    /\ pc = "line64"
    /\ \E value \in {Eval("line64", reentries_per_launch_expr(payload_per_flight, m_water_tonnes))} :
          IF IsRaised(value)
          THEN Raise(value.exc) /\ UNCHANGED reentries_per_launch
          ELSE reentries_per_launch' = value /\ Bind("line64", "reentries_per_launch")
    /\ UNCHANGED <<consts, KE_total, KE_max, heat_max, heat_to_tiles_fraction,
                   fraction_absorbed, energy_to_steam, m_water_kg, m_water_tonnes,
                   num_flights, total_cost, stdout>>

\* line 67: print(f"...")
Line67 ==
    /\ pc = "line67"
    /\ IF Reads("line67") \subseteq Bound
       THEN /\ stdout' = Append(stdout, print67(KE_total))
            /\ pc' = Succ("line67")
            /\ UNCHANGED <<computed, error>>
       ELSE Raise("NameError") /\ UNCHANGED stdout
    /\ UNCHANGED <<consts, derived>>

\* line 68: print(f"...")
Line68 ==
    /\ pc = "line68"
    /\ IF Reads("line68") \subseteq Bound
       THEN /\ stdout' = Append(stdout, print68(fraction_max_heating, KE_max))
            /\ pc' = Succ("line68")
            /\ UNCHANGED <<computed, error>>
       ELSE Raise("NameError") /\ UNCHANGED stdout
    /\ UNCHANGED <<consts, derived>>

\* line 69: print(f"...")
Line69 ==
    /\ pc = "line69"
    /\ IF Reads("line69") \subseteq Bound
       THEN /\ stdout' = Append(stdout, print69(heat_fraction, heat_max))
            /\ pc' = Succ("line69")
            /\ UNCHANGED <<computed, error>>
       ELSE Raise("NameError") /\ UNCHANGED stdout
    /\ UNCHANGED <<consts, derived>>

\* line 70: print(f"...")
Line70 ==
    /\ pc = "line70"
    /\ IF Reads("line70") \subseteq Bound
       THEN /\ stdout' = Append(stdout, print70(fraction_absorbed))
            /\ pc' = Succ("line70")
            /\ UNCHANGED <<computed, error>>
       ELSE Raise("NameError") /\ UNCHANGED stdout
    /\ UNCHANGED <<consts, derived>>

\* line 71: print(f"...")
Line71 ==
    /\ pc = "line71"
    /\ IF Reads("line71") \subseteq Bound
       THEN /\ stdout' = Append(stdout, print71(energy_to_steam))
            /\ pc' = Succ("line71")
            /\ UNCHANGED <<computed, error>>
       ELSE Raise("NameError") /\ UNCHANGED stdout
    /\ UNCHANGED <<consts, derived>>

\* line 72: print(f"...")
Line72 ==
    /\ pc = "line72"
    /\ IF Reads("line72") \subseteq Bound
       THEN /\ stdout' = Append(stdout, print72(m_water_tonnes))
            /\ pc' = Succ("line72")
            /\ UNCHANGED <<computed, error>>
       ELSE Raise("NameError") /\ UNCHANGED stdout
    /\ UNCHANGED <<consts, derived>>

\* line 73: print(f"...")
Line73 ==
    /\ pc = "line73"
    /\ IF Reads("line73") \subseteq Bound
       THEN /\ stdout' = Append(stdout, print73(num_flights))
            /\ pc' = Succ("line73")
            /\ UNCHANGED <<computed, error>>
       ELSE Raise("NameError") /\ UNCHANGED stdout
    /\ UNCHANGED <<consts, derived>>

\* line 74: print(f"...")
Line74 ==
    /\ pc = "line74"
    /\ IF Reads("line74") \subseteq Bound
       THEN /\ stdout' = Append(stdout, print74(total_cost))
            /\ pc' = Succ("line74")
            /\ UNCHANGED <<computed, error>>
       ELSE Raise("NameError") /\ UNCHANGED stdout
    /\ UNCHANGED <<consts, derived>>

\* line 75: print(f"...")
Line75 ==
    /\ pc = "line75"
    /\ IF Reads("line75") \subseteq Bound
       THEN /\ stdout' = Append(stdout, print75(reentries_per_launch))
            /\ pc' = Succ("line75")
            /\ UNCHANGED <<computed, error>>
       ELSE Raise("NameError") /\ UNCHANGED stdout
    /\ UNCHANGED <<consts, derived>>

Next ==
    \/ Line34
    \/ Line37
    \/ Line40
    \/ Line43
    \/ Line46
    \/ Line49
    \/ Line52
    \/ Line55
    \/ Line58
    \/ Line61
    \/ Line64
    \/ Line67
    \/ Line68
    \/ Line69
    \/ Line70
    \/ Line71
    \/ Line72
    \/ Line73
    \/ Line74
    \/ Line75

Spec == Init /\ [][Next]_vars

(***************************************************************************)
(* The chain of lines 37 to 55 for a second run that differs from this one *)
(* only in fraction_max_heating = b.  Lines 34, 43 and 46 do not read      *)
(* fraction_max_heating: the second run has this run's KE_total and        *)
(* fraction_absorbed.                                                      *)
(***************************************************************************)
SecondRun(b) ==
    LET kem == KE_max_expr(b, KE_total)
        hm == heat_max_expr(heat_fraction, kem)
        ets == energy_to_steam_expr(fraction_absorbed, hm)
        kg == m_water_kg_expr(ets, Lv)
    IN  [KE_max |-> kem, heat_max |-> hm, energy_to_steam |-> ets,
         m_water_kg |-> kg, m_water_tonnes |-> m_water_tonnes_expr(kg)]

(***************************************************************************)
(* Exact comparison.  The properties speak of the values the variables     *)
(* hold as numbers: a finite float and an int are both (-1)^neg * m * 2^e, *)
(* and so is the exact product of an int and a float.                      *)
(***************************************************************************)
\* -1, 0 or 1 as (-1)^an * a is below, equal to or above (-1)^bn * b
SCmp(an, a, bn, b) ==
    IF a = <<>> /\ b = <<>> THEN 0
    ELSE IF a = <<>> THEN (IF bn THEN 1 ELSE 0 - 1)
    ELSE IF b = <<>> THEN (IF an THEN 0 - 1 ELSE 1)
    ELSE IF an # bn THEN (IF an THEN 0 - 1 ELSE 1)
    ELSE IF an THEN BCmp(b, a) ELSE BCmp(a, b)

\* -1, 0 or 1 as x is below, equal to or above y
DyCmp(x, y) ==
    IF x.e >= y.e
    THEN SCmp(x.neg, BShl(x.m, x.e - y.e), y.neg, y.m)
    ELSE SCmp(x.neg, x.m, y.neg, BShl(y.m, y.e - x.e))

Exact(i) == [neg |-> i.neg, m |-> i.mag, e |-> 0]
ExactProduct(i, x) == [neg |-> i.neg # x.neg, m |-> BMul(i.mag, x.m), e |-> x.e]
IAdd(a, b) ==
    IF a.neg = b.neg THEN PyInt(a.neg, BAdd(a.mag, b.mag))
    ELSE IF BCmp(a.mag, b.mag) >= 0 THEN PyInt(a.neg, BSub(a.mag, b.mag))
    ELSE PyInt(b.neg, BSub(b.mag, a.mag))
IntCmp(a, b) == SCmp(a.neg, a.mag, b.neg, b.mag)
FLess(x, y) == DyCmp(x, y) < 0
Positive(x) == x.kind = "fin" /\ ~x.neg /\ x.m # <<>>
\* x is a positive normal float: finite and at least 2^-1022
Normal(x) == x.kind = "fin" /\ ~x.neg /\ BitLen(x.m) = MantBits
\* a <= b * (1 - 2^-49) for floats 0 <= a, 0 < b
Apart(a, b) ==
    DyCmp([neg |-> FALSE, m |-> a.m, e |-> a.e + 49],
          [neg |-> FALSE, m |-> BMul(b.m, BSub(BShl(<<1>>, 49), <<1>>)), e |-> b.e]) <= 0

(***************************************************************************)
(* Properties.                                                             *)
(***************************************************************************)
Terminated == pc \in {"exit0", "exit1"}
IsBound(name) == name \in Bound
Labels == [i \in DOMAIN stdout |-> stdout[i][1]]

\* C1: when m_water_tonnes evaluates to zero the run does not end in an
\* unhandled arithmetic fault: reentries_per_launch gets a defined outcome.
C1_ZeroWaterHasDefinedOutcome ==
    (Terminated /\ IsBound("m_water_tonnes") /\ IsZero(m_water_tonnes))
        => (error = "none" /\ IsBound("reentries_per_launch"))

\* C2: for every m_water_tonnes, num_flights is the smallest integer n with
\* n * payload_per_flight >= m_water_tonnes, that is, also
\* (n - 1) * payload_per_flight < m_water_tonnes.
C2_NumFlightsIsCeiling ==
    IsBound("num_flights") =>
        /\ DyCmp(Exact(IMul(num_flights, IntOf(payload_per_flight))),
                 m_water_tonnes) >= 0
        /\ DyCmp(Exact(IMul(IAdd(num_flights, IntOf(0 - 1)), IntOf(payload_per_flight))),
                 m_water_tonnes) < 0

\* C3: for positive m_water_tonnes, reentries_per_launch is the largest
\* integer r with r * m_water_tonnes <= payload_per_flight, that is, also
\* (r + 1) * m_water_tonnes > payload_per_flight.
C3_ReentriesIsFloor ==
    (IsBound("reentries_per_launch") /\ Positive(m_water_tonnes)) =>
        /\ DyCmp(ExactProduct(reentries_per_launch, m_water_tonnes),
                 Exact(IntOf(payload_per_flight))) <= 0
        /\ DyCmp(ExactProduct(IAdd(reentries_per_launch, IntOf(1)), m_water_tonnes),
                 Exact(IntOf(payload_per_flight))) > 0

\* C4: with temp_fraction = 1.0 the run computes heat_to_tiles_fraction = 1,
\* fraction_absorbed = 0, energy_to_steam = 0, m_water_kg = 0 and
\* m_water_tonnes = 0, and ends in the division by zero of line 64.
C4_FullTemperatureBoundary ==
    (temp_fraction = FromInt(1)) =>
        /\ IsBound("heat_to_tiles_fraction") => heat_to_tiles_fraction = FromInt(1)
        /\ IsBound("fraction_absorbed") => IsZero(fraction_absorbed)
        /\ IsBound("energy_to_steam") => IsZero(energy_to_steam)
        /\ IsBound("m_water_kg") => IsZero(m_water_kg)
        /\ IsBound("m_water_tonnes") => IsZero(m_water_tonnes)
        /\ Terminated =>
              /\ error = "ZeroDivisionError"
              /\ Bound = AllDerived \ {"reentries_per_launch"}

\* temp_fraction = 1.0 with the other factors non-zero, ended by the division
C4_Witness ==
    /\ temp_fraction = FromInt(1)
    /\ Positive(fraction_max_heating)
    /\ IsBound("heat_max") /\ Positive(heat_max)
    /\ pc = "exit1"
    /\ error = "ZeroDivisionError"

\* C5: a second run that differs only in a larger fraction_max_heating b has
\* strictly larger KE_max, heat_max, energy_to_steam and m_water_tonnes.
C5_StrictlyMonotoneEverywhere ==
    (Terminated /\ IsBound("m_water_tonnes")) =>
        \A b \in HeatingFractions :
            FLess(fraction_max_heating, b) =>
                LET second == SecondRun(b)
                IN  /\ FLess(KE_max, second.KE_max)
                    /\ FLess(heat_max, second.heat_max)
                    /\ FLess(energy_to_steam, second.energy_to_steam)
                    /\ FLess(m_water_tonnes, second.m_water_tonnes)

\* C5 amended: for a second run with a larger fraction_max_heating b and the
\* same finite KE_total, none of KE_max, heat_max, energy_to_steam and
\* m_water_tonnes is smaller, and each is strictly larger when the fractions
\* are apart (a <= b * (1 - 2^-49)) and the second run's values of lines 37
\* to 55 up to that one are normal floats.  With temp_fraction = 1.0
\* energy_to_steam and m_water_tonnes are zero in both runs.
C5_LargerWhenApartAndNormal ==
    (Terminated /\ IsBound("m_water_tonnes") /\ KE_total.kind = "fin") =>
        \A b \in HeatingFractions :
            FLess(fraction_max_heating, b) =>
                LET second == SecondRun(b)
                IN  /\ ~FLess(second.KE_max, KE_max)
                    /\ ~FLess(second.heat_max, heat_max)
                    /\ ~FLess(second.energy_to_steam, energy_to_steam)
                    /\ ~FLess(second.m_water_tonnes, m_water_tonnes)
                    /\ (Apart(fraction_max_heating, b) /\ Normal(second.KE_max)) =>
                          /\ FLess(KE_max, second.KE_max)
                          /\ Normal(second.heat_max) =>
                                /\ FLess(heat_max, second.heat_max)
                                /\ Normal(second.energy_to_steam) =>
                                      /\ FLess(energy_to_steam, second.energy_to_steam)
                                      /\ (Normal(second.m_water_kg)
                                              /\ Normal(second.m_water_tonnes)) =>
                                            FLess(m_water_tonnes, second.m_water_tonnes)
                    /\ temp_fraction = FromInt(1) =>
                          /\ IsZero(energy_to_steam)
                          /\ IsZero(second.energy_to_steam)
                          /\ IsZero(m_water_tonnes)
                          /\ IsZero(second.m_water_tonnes)

\* a run with water to carry, one larger fraction_max_heating apart from its
\* own that needs strictly more, and one a single float above its own for
\* which KE_max rounds to the same normal float
C5_Witness ==
    /\ Terminated
    /\ IsBound("m_water_tonnes")
    /\ Normal(m_water_tonnes)
    /\ \E b \in HeatingFractions :
          /\ FLess(fraction_max_heating, b)
          /\ Apart(fraction_max_heating, b)
          /\ Normal(SecondRun(b).m_water_tonnes)
          /\ FLess(m_water_tonnes, SecondRun(b).m_water_tonnes)
    /\ \E b \in HeatingFractions :
          /\ FLess(fraction_max_heating, b)
          /\ ~Apart(fraction_max_heating, b)
          /\ Normal(KE_max)
          /\ SecondRun(b).KE_max = KE_max

\* C6: the only statement that fails is the division of line 64, and it fails
\* exactly when m_water_tonnes is zero.
C6_OnlyZeroWaterDivisionFails ==
    /\ error # "none" =>
          /\ error = "ZeroDivisionError"
          /\ pc = "exit1"
          /\ Bound = AllDerived \ {"reentries_per_launch"}
          /\ IsZero(m_water_tonnes)
    /\ pc = "exit1" => error # "none"
    /\ (IsBound("total_cost") /\ pc # "line64" /\ ~IsZero(m_water_tonnes)) =>
          /\ error = "none"
          /\ IsBound("reentries_per_launch")
    /\ (IsBound("total_cost") /\ pc # "line64" /\ IsZero(m_water_tonnes)) =>
          error = "ZeroDivisionError"

\* the text each of the nine print statements starts its line with
NineLabels ==
    <<"Total kinetic energy: ", "KE during max heating (",
      "Heat during max heating (heat_fraction ", "Fraction absorbed by water: ",
      "Energy to steam: ", "Required water mass: ", "Number of flights needed: ",
      "Total cost to deliver water to orbit: $",
      "Reentries supplied per launch (including freighter): ">>

\* the derived values the formula of each derived value uses
DependsOn(name) ==
    CASE name = "KE_total" -> {}
      [] name = "KE_max" -> {"KE_total"}
      [] name = "heat_max" -> {"KE_max"}
      [] name = "heat_to_tiles_fraction" -> {}
      [] name = "fraction_absorbed" -> {"heat_to_tiles_fraction"}
      [] name = "energy_to_steam" -> {"fraction_absorbed", "heat_max"}
      [] name = "m_water_kg" -> {"energy_to_steam"}
      [] name = "m_water_tonnes" -> {"m_water_kg"}
      [] name = "num_flights" -> {"m_water_tonnes"}
      [] name = "total_cost" -> {"num_flights"}
      [] name = "reentries_per_launch" -> {"m_water_tonnes"}

\* C7: a completed run has printed exactly the nine lines, once each and in
\* the fixed order; nothing is printed before all eleven derived values are
\* computed, each computed once and after the values it depends on.
C7_NineLinesAfterAllValues ==
    /\ pc = "exit0" => Labels = NineLabels
    /\ Len(stdout) <= Len(NineLabels)
    /\ \A i \in DOMAIN stdout : stdout[i][1] = NineLabels[i]
    /\ stdout # <<>> => Bound = AllDerived
    /\ \A i, j \in DOMAIN computed : computed[i] = computed[j] => i = j
    /\ \A i \in DOMAIN computed :
          DependsOn(computed[i]) \subseteq {computed[j] : j \in 1..(i - 1)}

\* a completed run
C7_Witness ==
    /\ pc = "exit0"
    /\ Len(stdout) = 9
    /\ Len(computed) = 11

\* C9: for positive m_water_tonnes, reentries_per_launch >= 1 forces
\* num_flights = 1, num_flights >= 2 forces reentries_per_launch = 0,
\* num_flights >= 1 and total_cost >= propellant_cost_per_flight.
C9_CountsConstrainEachOther ==
    (IsBound("num_flights") /\ Positive(m_water_tonnes)) =>
        /\ IntCmp(num_flights, IntOf(1)) >= 0
        /\ IsBound("total_cost") =>
              IntCmp(total_cost, IntOf(propellant_cost_per_flight)) >= 0
        /\ IsBound("reentries_per_launch") =>
              /\ IntCmp(reentries_per_launch, IntOf(1)) >= 0 => num_flights = IntOf(1)
              /\ IntCmp(num_flights, IntOf(2)) >= 0 => reentries_per_launch = IntOf(0)

\* C10: a run ends with 0 or 9 lines printed; one that ends in an exception
\* has printed nothing, and one whose division of line 64 fails on
\* m_water_tonnes = 0 has num_flights = 0 and total_cost = 0 computed.
C10_OutputAllOrNothing ==
    /\ Terminated => Len(stdout) \in {0, 9}
    /\ error # "none" => stdout = <<>>
    /\ error = "ZeroDivisionError" =>
          /\ IsBound("m_water_tonnes") /\ IsZero(m_water_tonnes)
          /\ IsBound("num_flights") /\ num_flights = IntOf(0)
          /\ IsBound("total_cost") /\ total_cost = IntOf(0)

\* a run ended by the failing division
C10_Witness ==
    /\ pc = "exit1"
    /\ error = "ZeroDivisionError"
    /\ IsBound("total_cost")
    /\ stdout = <<>>

====
